---- MODULE Spec2Model ----
(***************************************************************************)
(* Model of the GDD generator: the template handler (input parser), the    *)
(* document learner (vector store gateway and template generator) and the  *)
(* create-document flow of the web application.                            *)
(*                                                                         *)
(* Text is modelled as a sequence of tokens.  The tokens are the character *)
(* classes the parser's regular expressions distinguish:                   *)
(*   "T"  a title label    (one of the four alternatives of the pattern)   *)
(*   "S"  a summary label  (one of the two alternatives)                   *)
(*   "F"  a functional-requirements label                                  *)
(*   ":"  a colon          "_"  whitespace other than a newline            *)
(*   "N"  a newline        "#"  a hash sign      "a"  any other character  *)
(***************************************************************************)
EXTENDS Integers, Sequences, FiniteSets, TLC

\* ------------------------------------------------------------------ bounds
MaxInputLen == 4
MaxRespKeys == 2
MaxQueryLen == 1
MaxGenKeys == 1
MaxChunks == 3
MaxLogins == 1
NumWorkers == 2
MaxPubKeys == 3
MaxValueLen == 2
MaxSessions == 2
MaxDocs == 1
MaxParagraphs == 3
MaxTempFiles == 2

\* ------------------------------------------------------- template registry
TitleLabels == {"T"}
SummaryLabels == {"S"}
FuncReqLabels == {"F"}
Newline == "N"
Whitespace == {"_", "N"}
Chars == {"T", "S", "F", ":", "_", "N", "#", "a"}

SectionKeys ==
  << "title", "summary", "functional_requirements",
     "non_functional_requirements", "constraints_assumptions",
     "architecture_overview", "system_components",
     "development_environment", "backend_technology",
     "frontend_technology", "infrastructure_deployment",
     "entity_relationship_diagram", "database_schema", "data_flow",
     "api_overview", "endpoint_details", "backend_components",
     "frontend_components", "core_algorithms_logic",
     "security_threat_analysis", "security_controls", "test_approach",
     "test_cases", "development_phases", "development_standards",
     "documentation_requirements", "glossary", "reference_documents",
     "requirements_implementation_verification",
     "implementation_status_conclusion" >>

DefaultKeys == {SectionKeys[i] : i \in 1..Len(SectionKeys)}

\* The default placeholder of a key is a non-empty text; it is represented
\* by the one-token text naming the key.
default_template_data == [k \in DefaultKeys |-> <<k>>]

EmptyMapping == [k \in {} |-> <<>>]

\* ------------------------------------------------------ regular expressions
Max(S) == CHOOSE x \in S : \A y \in S : y <= x
Min(S) == CHOOSE x \in S : \A y \in S : x <= y

\* Last position of the longest run of tokens of class Cls that starts at j
\* (j - 1 when the run is empty): a greedy  [Cls]*  from position j.
RunEnd(s, j, Cls) ==
  Max({e \in (j - 1)..Len(s) : \A x \in j..e : s[x] \in Cls})

\* (label)[\s:]*([^\n]+) tried at position i: the start of group 2, or 0 when
\* the pattern does not match at i.  [\s:]* is greedy and gives tokens back
\* until a token other than a newline follows it.
GroupStart(s, i) ==
  LET e == RunEnd(s, i + 1, Whitespace \cup {":"})
      P == {p \in (i + 1)..(e + 1) : p <= Len(s) /\ s[p] # Newline}
  IN IF P = {} THEN 0 ELSE Max(P)

\* re.search: the leftmost position at which the pattern matches, 0 if none.
SearchLabel(s, Labels) ==
  LET M == {i \in 1..Len(s) : s[i] \in Labels /\ GroupStart(s, i) # 0}
  IN IF M = {} THEN 0 ELSE Min(M)

\* Greedy [^\n]+ from p.
LineEnd(s, p) == RunEnd(s, p, Chars \ {Newline})

\* Greedy (?:\n[^\n#]+)* after position q.
RECURSIVE BlockEnd(_, _)
BlockEnd(s, q) ==
  IF q + 2 <= Len(s) /\ s[q + 1] = Newline /\ s[q + 2] \notin {Newline, "#"}
  THEN BlockEnd(s, RunEnd(s, q + 2, Chars \ {Newline, "#"}))
  ELSE q

\* str.strip()
Strip(v) ==
  LET K == {i \in 1..Len(v) : v[i] \notin Whitespace}
  IN IF K = {} THEN <<>> ELSE SubSeq(v, Min(K), Max(K))

\* group(2).strip() of the title pattern; the match is at position i.
TitleGroup(s, i) ==
  LET p == GroupStart(s, i) IN Strip(SubSeq(s, p, LineEnd(s, p)))

\* group(2).strip() of the summary / functional-requirements patterns.
BlockGroup(s, i) ==
  LET p == GroupStart(s, i) IN Strip(SubSeq(s, p, BlockEnd(s, LineEnd(s, p))))

\* ------------------------------------------------------------ input parser
\* Rule-based parsing: the defaults, overwritten by the labelled blocks found.
basic_parsing(user_input) ==
  LET t == SearchLabel(user_input, TitleLabels)
      u == SearchLabel(user_input, SummaryLabels)
      f == SearchLabel(user_input, FuncReqLabels)
  IN [k \in DefaultKeys |->
        IF k = "title" /\ t # 0 THEN TitleGroup(user_input, t)
        ELSE IF k = "summary" /\ u # 0 THEN BlockGroup(user_input, u)
        ELSE IF k = "functional_requirements" /\ f # 0
             THEN BlockGroup(user_input, f)
        ELSE default_template_data[k]]

\* The merge loop without the filling of missing keys.
MergeDefaults_NoFill(data) ==
  [k \in DOMAIN data |->
     IF k \in DefaultKeys /\ data[k] = <<>> THEN default_template_data[k]
     ELSE data[k]]

\* The merge loop: every default key missing from data, or empty in it, is
\* set to its default; the other entries of data are left as they are.
MergeDefaults(data) ==
  [k \in DOMAIN data \cup DefaultKeys |->
     IF k \in DefaultKeys /\ (k \notin DOMAIN data \/ data[k] = <<>>)
     THEN default_template_data[k]
     ELSE data[k]]

\* The outcomes of one completion request followed by json.loads:
\*   "request_error"  the request raised
\*   "invalid_json"   the content is not JSON
\*   "non_object"     the content is JSON but not an object
\*   "object"         the content is the JSON object  data
RespKeyPool == <<"title", "extra_key", "summary", "glossary">>
RespKeys(n) == {RespKeyPool[i] : i \in 1..Min({n, Len(RespKeyPool)})}
RespValues == {<<>>, <<"a">>}
RespObjects(n) ==
  UNION {[D -> RespValues] : D \in SUBSET RespKeys(n)}
Responses(n) ==
  {[kind |-> k, truthy |-> FALSE, data |-> EmptyMapping] :
      k \in {"request_error", "invalid_json"}}
  \cup {[kind |-> "non_object", truthy |-> b, data |-> EmptyMapping] :
          b \in BOOLEAN}
  \cup {[kind |-> "object", truthy |-> (DOMAIN d # {}), data |-> d] :
          d \in RespObjects(n)}
LLMResponses == Responses(MaxRespKeys)
AppResponses == Responses(MaxGenKeys)

\* The language-model path with rule-based parsing as its failure answer.
generate_template_data_with_ai_RuleFallback(user_input, resp) ==
  IF resp.kind = "object" THEN MergeDefaults(resp.data)
  ELSE basic_parsing(user_input)

\* A non-object makes the merge loop raise; every exception is caught and
\* answered with the defaults.
generate_template_data_with_ai(user_input, resp) ==
  IF resp.kind = "object" THEN MergeDefaults(resp.data)
  ELSE default_template_data

parse_user_input(key, user_input, resp) ==
  IF key THEN generate_template_data_with_ai(user_input, resp)
  ELSE basic_parsing(user_input)

RECURSIVE SeqsUpTo(_, _)
SeqsUpTo(S, n) ==
  IF n = 0 THEN {<<>>}
  ELSE LET R == SeqsUpTo(S, n - 1)
       IN R \cup {Append(r, c) : r \in {x \in R : Len(x) = n - 1}, c \in S}

UserInputs == SeqsUpTo(Chars, MaxInputLen)

\* ------------------------------------------------------------------- state
VARIABLES
  api_key,           \* OPENAI_API_KEY is set (TemplateHandler / DocumentLearner)
  langchain,         \* the langchain packages can be imported
  token,             \* TOKEN_FILE: 0 when absent, else the credential stored
  token_state,       \* the stored credential: "none", "valid", "expired", "invalid"
  logins_left,       \* logins the model still performs
  temp_files,        \* temporary files of the ingestion handlers on disk
  service,           \* DocumentCreator.service: 0 when unset, else its credential
  document_learner,  \* the module-level DocumentLearner has been constructed
  embedding,         \* DocumentLearner.embedding is set
  vectorstore,       \* DocumentLearner.vectorstore: "None" or "Chroma"
  collection,        \* chunks held in memory by the index behind the handle
  chroma_db,         \* persist_directory: [exists, chunks]
  next_id,           \* identity of the next chunk handed to add_documents
  cleared,           \* chunks that were indexed when a clear succeeded
  index_state,       \* what happened to the index since start / the last clear
  last,              \* the last completed call: arguments, outcomes, result
  pc,                \* concurrent workers: position of each worker
  loc                \* concurrent workers: local variables of each worker

vars == << api_key, langchain, token, token_state, logins_left, service,
           document_learner, embedding, vectorstore, collection, chroma_db, next_id, cleared, index_state,
           temp_files, last, pc, loc >>

env_vars == << api_key, langchain >>
auth_vars == << token, token_state, logins_left, service >>
gateway_vars == << document_learner, embedding, vectorstore, collection,
                  chroma_db, next_id, cleared, index_state >>
worker_vars == << pc, loc >>

\* Python values a template can be: a dict, or some other JSON value.
Dict(m) == [is_dict |-> TRUE, truthy |-> (DOMAIN m # {}), data |-> m]
NonDict(b) == [is_dict |-> FALSE, truthy |-> b, data |-> EmptyMapping]
NoResponse == [kind |-> "none", truthy |-> FALSE, data |-> EmptyMapping]

\* A file handed to the ingestion pipeline: its extension and its text, the
\* text given by the lengths of its paragraphs (runs of characters other than
\* white space, separated by one blank line).
NoFile == [ext |-> ".txt", text |-> <<>>]

\* create_document_from_template returning None.
NoHandle == [id |-> "none", url |-> <<>>]

NoCall ==
  [ op |-> "none", input |-> <<>>, resp |-> NoResponse,
    template_data |-> Dict(EmptyMapping), docs |-> {}, ok |-> FALSE,
    found |-> {}, raised |-> {}, fresh |-> FALSE, outcome |-> "none",
    gen_called |-> FALSE, gen_ret |-> Dict(EmptyMapping),
    llm_calls |-> 0, prior |-> "none",
    steps |-> <<>>, escaped |-> FALSE, constructed |-> FALSE, batch |-> <<>>,
    handle |-> NoHandle, doc_id |-> "none", create_calls |-> 0,
    update_calls |-> 0, created |-> FALSE, updated |-> FALSE, cred |-> 0,
    cred_state |-> "none",
    file |-> NoFile, fail |-> "none", retry_ok |-> TRUE,
    pdf_loader_ok |-> TRUE, chunks |-> <<>>,
    write |-> "none", temp_created |-> FALSE, temp_file |-> "none",
    before |-> [ embedding |-> FALSE, vectorstore |-> "None",
                 collection |-> {},
                 db |-> [exists |-> TRUE, chunks |-> {}] ] ]

Workers == 1..NumWorkers
IdleWorkers == [w \in Workers |-> "idle"]
NoLocals == [w \in Workers |-> [docs |-> {}, ok |-> FALSE, found |-> {}]]

\* ------------------------------------------------- vector store gateway
\* The DocumentLearner object and its persist directory, as one value the
\* methods below transform.
Gateway ==
  [ embedding |-> embedding, vectorstore |-> vectorstore,
    collection |-> collection, db |-> chroma_db ]

\* DocumentLearner._initialize_if_needed.  load_ok: opening the existing
\* index does not raise.  A missing package (ImportError) leaves both
\* handles unset.
initialize_if_needed(g, load_ok) ==
  IF ~g.embedding /\ api_key
  THEN IF ~langchain
       THEN [g EXCEPT !.embedding = FALSE, !.vectorstore = "None",
                      !.collection = {}]
       ELSE IF ~g.db.exists
       THEN [g EXCEPT !.embedding = TRUE]
       ELSE IF load_ok
       THEN [g EXCEPT !.embedding = TRUE, !.vectorstore = "Chroma",
                      !.collection = g.db.chunks]
       ELSE [g EXCEPT !.embedding = TRUE, !.vectorstore = "None",
                      !.collection = {}]
  ELSE g

\* DocumentLearner.__init__: the persist directory is created when missing;
\* with an API key the handles are initialised at once.
DocumentLearner_init(g, load_ok) ==
  LET g1 == IF g.db.exists THEN g
            ELSE [g EXCEPT !.db = [exists |-> TRUE, chunks |-> {}]]
  IN IF api_key THEN initialize_if_needed(g1, load_ok) ELSE g1

\* get_document_learner(): the module-level object, constructed on first use.
get_document_learner(g, load_ok) ==
  IF document_learner THEN g ELSE DocumentLearner_init(g, load_ok)

\* add_documents with the embedding check left out.
add_documents_NoEmbeddingCheck(g, documents, load_ok, add_ok, persist_ok) ==
  LET g1 == initialize_if_needed(g, load_ok)
      g2 == IF g1.vectorstore = "None"
            THEN [g1 EXCEPT !.vectorstore = "Chroma",
                            !.collection = g1.db.chunks \cup documents]
            ELSE [g1 EXCEPT !.collection = @ \cup documents]
  IN IF ~add_ok
     THEN [g |-> g1, ok |-> FALSE, raised |-> {"add"}, steps |-> <<>>]
     ELSE IF ~persist_ok
     THEN [g |-> g2, ok |-> FALSE, raised |-> {"persist"},
           steps |-> <<"add">>]
     ELSE [g |-> [g2 EXCEPT !.db = [exists |-> TRUE,
                                    chunks |-> g2.collection]],
           ok |-> TRUE, raised |-> {}, steps |-> <<"add", "persist">>]

\* add_documents answering success from its exception handler.
add_documents_SuccessOnError(g, documents, load_ok, add_ok, persist_ok) ==
  LET r == add_documents_NoEmbeddingCheck(g, documents, load_ok, add_ok,
                                          persist_ok)
  IN IF ~initialize_if_needed(g, load_ok).embedding
     THEN [g |-> initialize_if_needed(g, load_ok), ok |-> FALSE,
           raised |-> {}, steps |-> <<>>]
     ELSE [r EXCEPT !.ok = TRUE]

\* DocumentLearner.add_documents(documents).  add_ok: embedding and adding
\* the chunks does not raise; persist_ok: persist() does not raise.  A new
\* index opened on the persist directory holds what is persisted there.
add_documents(g, documents, load_ok, add_ok, persist_ok) ==
  LET g1 == initialize_if_needed(g, load_ok)
      g2 == IF g1.vectorstore = "None"
            THEN [g1 EXCEPT !.vectorstore = "Chroma",
                            !.collection = g1.db.chunks \cup documents]
            ELSE [g1 EXCEPT !.collection = @ \cup documents]
  IN IF ~g1.embedding
     THEN [g |-> g1, ok |-> FALSE, raised |-> {}, steps |-> <<>>]
     ELSE IF ~add_ok
     THEN [g |-> g1, ok |-> FALSE, raised |-> {"add"}, steps |-> <<>>]
     ELSE IF ~persist_ok
     THEN [g |-> g2, ok |-> FALSE, raised |-> {"persist"},
           steps |-> <<"add">>]
     ELSE [g |-> [g2 EXCEPT !.db = [exists |-> TRUE,
                                    chunks |-> g2.collection]],
           ok |-> TRUE, raised |-> {}, steps |-> <<"add", "persist">>]

\* similarity_search(query, k): the k nearest chunks of the index.
TopK(S, k) ==
  IF Cardinality(S) <= k THEN S
  ELSE CHOOSE T \in SUBSET S : Cardinality(T) = k

DefaultTopK == 5

\* search_similar_documents without the try/except around the query.
search_similar_documents_NoTry(g, load_ok, query_ok) ==
  LET g1 == initialize_if_needed(g, load_ok)
  IN IF g1.vectorstore = "None"
     THEN [g |-> g1, found |-> {}, raised |-> {}, escaped |-> FALSE]
     ELSE IF ~query_ok
     THEN [g |-> g1, found |-> {}, raised |-> {"search"}, escaped |-> TRUE]
     ELSE [g |-> g1, found |-> TopK(g1.collection, DefaultTopK),
           raised |-> {}, escaped |-> FALSE]

\* DocumentLearner.search_similar_documents(query).  query_ok: the
\* similarity search does not raise.
search_similar_documents(g, load_ok, query_ok) ==
  LET g1 == initialize_if_needed(g, load_ok)
  IN IF g1.vectorstore = "None"
     THEN [g |-> g1, found |-> {}, raised |-> {}, escaped |-> FALSE]
     ELSE IF ~query_ok
     THEN [g |-> g1, found |-> {}, raised |-> {"search"}, escaped |-> FALSE]
     ELSE [g |-> g1, found |-> TopK(g1.collection, DefaultTopK),
           raised |-> {}, escaped |-> FALSE]

\* clear_vectorstore that removes the directory but keeps the handle.
clear_vectorstore_KeepHandle(g, rmtree_ok, left) ==
  IF g.db.exists /\ ~rmtree_ok
  THEN [g |-> [g EXCEPT !.db.chunks = left], ok |-> FALSE,
        raised |-> {"rmtree"}]
  ELSE [g |-> [g EXCEPT !.db = [exists |-> FALSE, chunks |-> {}]],
        ok |-> TRUE, raised |-> {}]

\* DocumentLearner.clear_vectorstore().  rmtree_ok: removing the directory
\* does not raise; left: what the directory still holds when it did.
clear_vectorstore(g, rmtree_ok, left) ==
  IF g.db.exists /\ ~rmtree_ok
  THEN [g |-> [g EXCEPT !.db.chunks = left], ok |-> FALSE,
        raised |-> {"rmtree"}]
  ELSE [g |-> [g EXCEPT !.db = [exists |-> FALSE, chunks |-> {}],
                        !.vectorstore = "None", !.collection = {}],
        ok |-> TRUE, raised |-> {}]

\* --------------------------------------------- template generator, publisher
\* generate_template_from_query answering a failure with the defaults.
generate_template_from_query_DefaultOnError(resp) ==
  IF ~api_key THEN Dict(EmptyMapping)
  ELSE IF resp.kind = "object" THEN Dict(resp.data)
  ELSE IF resp.kind = "non_object" THEN NonDict(resp.truthy)
  ELSE Dict(default_template_data)

\* DocumentLearner.generate_template_from_query(query): without an API key
\* the empty dict; otherwise whatever json.loads makes of the completion,
\* and the empty dict when the request or the parsing raises.
generate_template_from_query(resp) ==
  IF ~api_key THEN Dict(EmptyMapping)
  ELSE IF resp.kind = "object" THEN Dict(resp.data)
  ELSE IF resp.kind = "non_object" THEN NonDict(resp.truthy)
  ELSE Dict(EmptyMapping)

\* DocumentCreator.authenticate(scopes), as create_document_from_template
\* calls it: credentials_file is None.  build_ok: building the API service
\* does not raise.  A credential that is expired and has a refresh token
\* reaches creds.refresh(Request()); Request is a local name of
\* _initialize_google_apis, the call raises NameError and the handler
\* returns False.  Returns the service the object holds afterwards.
authenticate(build_ok) ==
  IF token = 0 THEN [ok |-> FALSE, service |-> service]
  ELSE IF token_state = "valid"
  THEN IF build_ok THEN [ok |-> TRUE, service |-> token]
       ELSE [ok |-> FALSE, service |-> service]
  ELSE [ok |-> FALSE, service |-> service]

\* DocumentCreator.get_document_link(document_id)
get_document_link(document_id) ==
  << "https://docs.google.com/document/d/", document_id, "/edit" >>

\* create_document_from_template returning a handle whatever the batch
\* update answered.
create_document_from_template_IgnoreUpdate(template, auth_ok, create_ok, update_ok, doc_id) ==
  LET a == IF service = 0 THEN authenticate(auth_ok)
           ELSE [ok |-> TRUE, service |-> service]
      none == [handle |-> NoHandle, service |-> a.service, cred |-> 0,
               doc_id |-> "none", create_calls |-> 0, update_calls |-> 0,
               created |-> FALSE, updated |-> FALSE]
  IN IF ~a.ok THEN none
     ELSE IF ~create_ok
     THEN [none EXCEPT !.cred = a.service, !.create_calls = 1]
     ELSE IF ~template.is_dict
     THEN [none EXCEPT !.cred = a.service, !.create_calls = 1,
                       !.created = TRUE, !.doc_id = doc_id]
     ELSE [none EXCEPT !.cred = a.service, !.create_calls = 1,
                       !.created = TRUE, !.doc_id = doc_id,
                       !.update_calls = 1, !.updated = update_ok,
                       !.handle = [id |-> doc_id,
                                   url |-> get_document_link(doc_id)]]

\* DocumentCreator.create_document_from_template(title, template_data).
\* auth_ok: building the service succeeds; create_ok, update_ok: the remote
\* create call and the remote batch update succeed; doc_id: the id the
\* create call returns.  Formatting reads the template with dict lookups and
\* raises on any other value.  The object keeps its service once it has one;
\* cred is the credential behind the service the remote calls went through.
create_document_from_template(template, auth_ok, create_ok, update_ok, doc_id) ==
  LET a == IF service = 0 THEN authenticate(auth_ok)
           ELSE [ok |-> TRUE, service |-> service]
      none == [handle |-> NoHandle, service |-> a.service, cred |-> 0,
               doc_id |-> "none", create_calls |-> 0, update_calls |-> 0,
               created |-> FALSE, updated |-> FALSE]
  IN IF ~a.ok THEN none
     ELSE IF ~create_ok
     THEN [none EXCEPT !.cred = a.service, !.create_calls = 1]
     ELSE IF ~template.is_dict
     THEN [none EXCEPT !.cred = a.service, !.create_calls = 1,
                       !.created = TRUE, !.doc_id = doc_id]
     ELSE IF ~update_ok
     THEN [none EXCEPT !.cred = a.service, !.create_calls = 1,
                       !.created = TRUE, !.doc_id = doc_id,
                       !.update_calls = 1]
     ELSE [none EXCEPT !.cred = a.service, !.create_calls = 1,
                       !.created = TRUE, !.doc_id = doc_id,
                       !.update_calls = 1, !.updated = TRUE,
                       !.handle = [id |-> doc_id,
                                   url |-> get_document_link(doc_id)]]

\* Ids the remote create call answers with.
DocIdPool == <<"doc_1", "doc_2", "doc_3">>
DocIds == {DocIdPool[i] : i \in 1..Min({MaxDocs, Len(DocIdPool)})}

QueryInputs == SeqsUpTo(Chars, MaxQueryLen)

\* What one publish attempt runs into.
PublishOutcomes == {"ok", "auth_error", "create_error", "update_error"}

\* The outcomes open to a publish attempt in the current state: the service
\* is built only when the object holds none and the stored credential is
\* valid, and the remote calls are made only with a service.
PublishOutcomesNow ==
  IF service # 0 THEN PublishOutcomes \ {"auth_error"}
  ELSE IF token_state = "valid" THEN PublishOutcomes
  ELSE {"auth_error"}

\* Opening the persisted index can only fail where it is attempted: at the
\* construction of the gateway.
LoadOutcomes == IF document_learner THEN {TRUE} ELSE BOOLEAN

\* ----------------------------------------------------- parser specification
\* One call of the input parser: the initial state holds the arguments of the
\* pending call (the user input and the outcome the completion request will
\* have), the action performs the call.
InitParser ==
  /\ api_key \in BOOLEAN
  /\ langchain = TRUE
  /\ token = 0
  /\ token_state = "none"
  /\ logins_left = MaxLogins
  /\ service = 0
  /\ document_learner = FALSE
  /\ embedding = FALSE
  /\ vectorstore = "None"
  /\ collection = {}
  /\ chroma_db = [exists |-> TRUE, chunks |-> {}]
  /\ next_id = 1
  /\ cleared = {}
  /\ index_state = "virgin"
  /\ temp_files = {}
  /\ \E user_input \in UserInputs,
        resp \in IF api_key THEN LLMResponses ELSE {NoResponse} :
        last = [NoCall EXCEPT !.op = "pending", !.input = user_input,
                              !.resp = resp]
  /\ pc = IdleWorkers
  /\ loc = NoLocals

\* TemplateHandler.parse_user_input(user_input)
ParseUserInput ==
  /\ last.op = "pending"
  /\ last' = [last EXCEPT
                !.op = "parse_user_input",
                !.llm_calls = IF api_key THEN 1 ELSE 0,
                !.template_data =
                   Dict(parse_user_input(api_key, last.input, last.resp))]
  /\ UNCHANGED << env_vars, auth_vars, gateway_vars, temp_files, worker_vars >>

NextParser == ParseUserInput

SpecParser == InitParser /\ [][NextParser]_vars

Parsed == last.op = "parse_user_input"
LLMFailed == last.resp.kind \in {"request_error", "invalid_json"}

\* C1: on every path (language-model success, request or JSON failure, a
\* JSON value that is not an object, rule-based parsing without an API key)
\* parse returns a mapping in which every key of the default key set is
\* present.
C1_AllKeysPresent ==
  Parsed => /\ last.template_data.is_dict
            /\ DefaultKeys \subseteq DOMAIN last.template_data.data

\* C1 witness: a parse whose completion request failed, and one whose response
\* was an object lacking default keys, both returned every default key.
C1_Witness ==
  /\ Parsed /\ api_key
  /\ last.resp.kind = "object"
  /\ ~(DefaultKeys \subseteq DOMAIN last.resp.data)
  /\ DefaultKeys \subseteq DOMAIN last.template_data.data

\* C2 (as claimed): the mapping produced by the merge with the defaults has
\* exactly the default key set and no key with an empty value.
C2_ExactKeysNoEmpty ==
  Parsed => /\ DOMAIN last.template_data.data = DefaultKeys
            /\ \A k \in DOMAIN last.template_data.data :
                  last.template_data.data[k] # <<>>

Init ==
  /\ api_key \in BOOLEAN
  /\ langchain \in BOOLEAN
  /\ token = 0
  /\ token_state = "none"
  /\ logins_left = MaxLogins
  /\ service = 0
  /\ document_learner = FALSE
  /\ embedding = FALSE
  /\ vectorstore = "None"
  /\ collection = {}
  /\ chroma_db \in {[exists |-> TRUE, chunks |-> c] : c \in {{}, {0}}}
  /\ next_id = 1
  /\ cleared = {}
  /\ index_state = IF chroma_db.chunks = {} THEN "virgin" ELSE "upserted"
  /\ temp_files = {}
  /\ last = NoCall
  /\ pc = IdleWorkers
  /\ loc = NoLocals

\* index_state records, for the claims about search and clear, what the
\* index has been through:
\*   "virgin"    nothing persisted at start, no chunk added since
\*   "dirty"     never cleared; chunks were added but no upsert succeeded
\*   "cleared"   a clear succeeded and no chunk was added since
\*   "added"     since the last successful clear chunks were added, but no
\*               upsert succeeded
\*   "upserted"  an upsert succeeded since start / the last successful clear
IndexStateAfterAdd(r) ==
  IF r.ok THEN "upserted"
  ELSE IF r.steps = <<>> THEN index_state
  ELSE IF index_state = "virgin" THEN "dirty"
  ELSE IF index_state = "cleared" THEN "added"
  ELSE index_state

SetGateway(g) ==
  /\ document_learner' = TRUE
  /\ embedding' = g.embedding
  /\ vectorstore' = g.vectorstore
  /\ collection' = g.collection
  /\ chroma_db' = g.db

\* add_documents on the shared gateway, with one new chunk.
AddDocuments ==
  /\ next_id <= MaxChunks
  /\ \E load_ok \in LoadOutcomes, add_ok \in BOOLEAN,
        persist_ok \in BOOLEAN :
       LET g0 == get_document_learner(Gateway, load_ok)
           r == add_documents(g0, {next_id}, load_ok, add_ok, persist_ok)
       IN /\ SetGateway(r.g)
          /\ index_state' = IndexStateAfterAdd(r)
          /\ last' = [NoCall EXCEPT
                        !.op = "add_documents", !.docs = {next_id},
                        !.ok = r.ok, !.raised = r.raised,
                        !.steps = r.steps, !.before = g0,
                        !.prior = index_state,
                        !.fresh =
                          /\ r.steps # <<>>
                          /\ initialize_if_needed(g0, load_ok).vectorstore
                               = "None"]
  /\ next_id' = next_id + 1
  /\ UNCHANGED << env_vars, auth_vars, cleared, temp_files, worker_vars >>

\* search_similar_documents on the shared gateway.
SearchSimilarDocuments ==
  /\ \E load_ok \in LoadOutcomes, query_ok \in BOOLEAN :
       LET g0 == get_document_learner(Gateway, load_ok)
           r == search_similar_documents(g0, load_ok, query_ok)
       IN /\ SetGateway(r.g)
          /\ last' = [NoCall EXCEPT
                        !.op = "search_similar_documents",
                        !.found = r.found, !.raised = r.raised,
                        !.escaped = r.escaped, !.before = g0]
  /\ UNCHANGED << env_vars, auth_vars, next_id, cleared, index_state,
                  temp_files, worker_vars >>

\* clear_vectorstore on the shared gateway (the clear-learned-data handler).
ClearVectorstore ==
  /\ \E load_ok \in LoadOutcomes, rmtree_ok \in BOOLEAN :
       LET g0 == get_document_learner(Gateway, load_ok)
       IN \E left \in {g0.db.chunks, {}} :
            LET r == clear_vectorstore(g0, rmtree_ok, left)
            IN /\ SetGateway(r.g)
               /\ cleared' = IF r.ok
                             THEN cleared \cup g0.collection \cup g0.db.chunks
                             ELSE cleared
               /\ index_state' = IF r.ok THEN "cleared" ELSE index_state
               /\ last' = [NoCall EXCEPT
                             !.op = "clear_vectorstore", !.ok = r.ok,
                             !.raised = r.raised, !.before = g0,
                             !.constructed = ~document_learner]
  /\ UNCHANGED << env_vars, auth_vars, next_id, temp_files, worker_vars >>

\* The OAuth callback stores the credential of a new login in the token file;
\* every login yields a credential of its own (named by the logins left).
Callback ==
  /\ logins_left > 0
  /\ token' = logins_left
  /\ token_state' = "valid"
  /\ logins_left' = logins_left - 1
  /\ last' = [NoCall EXCEPT !.op = "callback"]
  /\ UNCHANGED << env_vars, service, gateway_vars, temp_files, worker_vars >>

\* logout removes the token file.
Logout ==
  /\ token' = 0
  /\ token_state' = "none"
  /\ logins_left' = logins_left
  /\ last' = [NoCall EXCEPT !.op = "logout"]
  /\ UNCHANGED << env_vars, service, gateway_vars, temp_files, worker_vars >>

\* The create-document handler without a stored credential: redirect to login.
CreateDocumentUnauthenticated ==
  /\ token = 0
  /\ last' = [NoCall EXCEPT !.op = "create_document",
                            !.outcome = "redirect_login",
                            !.cred_state = token_state]
  /\ UNCHANGED << env_vars, auth_vars, gateway_vars, temp_files, worker_vars >>

\* The create-document handler with a stored credential.  The outcome of a
\* call is drawn only where the handler makes the call.
CreateDocument ==
  /\ token # 0
  /\ \E use_learned \in BOOLEAN, load_ok \in LoadOutcomes :
       LET g0 == get_document_learner(Gateway, load_ok)
           call_gen == use_learned /\ g0.vectorstore # "None"
       IN \E resp_gen \in IF call_gen THEN AppResponses ELSE {NoResponse} :
            LET generated == IF call_gen
                             THEN generate_template_from_query(resp_gen)
                             ELSE Dict(EmptyMapping)
                call_parse == ~generated.truthy
            IN \E query_ok \in IF generated.truthy THEN BOOLEAN ELSE {TRUE},
                  resp_parse \in IF call_parse /\ api_key THEN AppResponses
                                 ELSE {NoResponse},
                  content \in IF call_parse /\ ~api_key THEN QueryInputs
                              ELSE {<<>>} :
                 \E template \in
                       {IF call_parse
                        THEN Dict(parse_user_input(api_key, content,
                                                   resp_parse))
                        ELSE generated},
                    s \in {search_similar_documents(g0, load_ok, query_ok)},
                    pub \in PublishOutcomesNow :
                 \E doc_id \in IF pub \in {"ok", "update_error"} THEN DocIds
                                ELSE {"none"} :
                 \E result \in
                       {create_document_from_template(
                          template, pub # "auth_error", pub # "create_error",
                          pub # "update_error", doc_id)} :
                 LET g1 == IF generated.truthy THEN s.g ELSE g0
                 IN /\ SetGateway(g1)
                    /\ service' = result.service
                    /\ last' = [NoCall EXCEPT
                         !.op = "create_document",
                         !.gen_called = call_gen,
                         !.resp = resp_gen,
                         !.gen_ret = generated,
                         !.found = IF generated.truthy THEN s.found ELSE {},
                         !.llm_calls =
                            (IF call_gen /\ api_key THEN 1 ELSE 0)
                            + (IF call_parse /\ api_key THEN 1 ELSE 0),
                         !.template_data = template,
                         !.handle = result.handle,
                         !.doc_id = result.doc_id,
                         !.create_calls = result.create_calls,
                         !.update_calls = result.update_calls,
                         !.created = result.created,
                         !.updated = result.updated,
                         !.cred = result.cred,
                         !.cred_state = token_state,
                         !.outcome = IF result.handle # NoHandle
                                     THEN "success" ELSE "error"]
  /\ UNCHANGED << token, token_state, logins_left >>
  /\ UNCHANGED << env_vars, next_id, cleared, index_state, temp_files,
                  worker_vars >>

Next ==
  \/ AddDocuments
  \/ SearchSimilarDocuments
  \/ ClearVectorstore
  \/ Callback
  \/ Logout
  \/ CreateDocumentUnauthenticated
  \/ CreateDocument

Spec == Init /\ [][Next]_vars

\* ------------------------------------------------------ concurrent workers
\* The gateway methods run by concurrent workers on the shared object, one
\* statement that reads or writes the object or the directory per step.  The
\* methods take no lock.  The gateway has been constructed with an API key.
InitConc ==
  /\ api_key = TRUE
  /\ langchain = TRUE
  /\ token = 0
  /\ token_state = "none"
  /\ logins_left = MaxLogins
  /\ service = 0
  /\ document_learner = TRUE
  /\ embedding = TRUE
  /\ vectorstore = "Chroma"
  /\ chroma_db \in {[exists |-> TRUE, chunks |-> c] : c \in {{}, {0}}}
  /\ collection = chroma_db.chunks
  /\ next_id = 1
  /\ cleared = {}
  /\ index_state = IF chroma_db.chunks = {} THEN "virgin" ELSE "upserted"
  /\ temp_files = {}
  /\ last = NoCall
  /\ pc = IdleWorkers
  /\ loc = NoLocals

Goto(w, label) == pc' = [pc EXCEPT ![w] = label]

conc_frame == << env_vars, auth_vars, temp_files, document_learner, embedding, cleared,
                 index_state >>

\* A worker enters add_documents with one new chunk.
StartUpsert(w) ==
  /\ pc[w] = "idle" /\ next_id <= MaxChunks
  /\ Goto(w, "add_init")
  /\ loc' = [loc EXCEPT ![w] = [docs |-> {next_id}, ok |-> FALSE,
                                found |-> {}]]
  /\ next_id' = next_id + 1
  /\ UNCHANGED << conc_frame, last, vectorstore, collection, chroma_db >>

\* _initialize_if_needed(); if not self.embedding: return False
UpsertInit(w) ==
  /\ pc[w] = "add_init"
  /\ Goto(w, IF embedding THEN "add_index" ELSE "add_return")
  /\ UNCHANGED << conc_frame, last, vectorstore, collection, chroma_db, next_id,
                  loc >>

\* if self.vectorstore is None: self.vectorstore = Chroma.from_documents(...)
\* else: self.vectorstore.add_documents(documents)
UpsertAdd(w) ==
  /\ pc[w] = "add_index"
  /\ vectorstore' = "Chroma"
  /\ collection' = IF vectorstore = "None"
                   THEN chroma_db.chunks \cup loc[w].docs
                   ELSE collection \cup loc[w].docs
  /\ Goto(w, "add_persist")
  /\ UNCHANGED << conc_frame, last, chroma_db, next_id, loc >>

\* self.vectorstore.persist(); with the handle reset in between, the call on
\* None raises and the handler answers failure.
UpsertPersist(w) ==
  /\ pc[w] = "add_persist"
  /\ IF vectorstore = "None"
     THEN /\ loc' = [loc EXCEPT ![w].ok = FALSE]
          /\ UNCHANGED chroma_db
     ELSE /\ loc' = [loc EXCEPT ![w].ok = TRUE]
          /\ chroma_db' = [exists |-> TRUE, chunks |-> collection]
  /\ Goto(w, "add_return")
  /\ UNCHANGED << conc_frame, last, vectorstore, collection, next_id >>

\* return True / return False
UpsertReturn(w) ==
  /\ pc[w] = "add_return"
  /\ Goto(w, "idle")
  /\ last' = [NoCall EXCEPT !.op = "add_documents", !.ok = loc[w].ok,
                            !.docs = loc[w].docs]
  /\ loc' = [loc EXCEPT ![w] = NoLocals[w]]
  /\ UNCHANGED << conc_frame, vectorstore, collection, chroma_db, next_id >>

\* A worker enters clear_vectorstore: if os.path.exists(persist_directory)
StartClear(w) ==
  /\ pc[w] = "idle"
  /\ Goto(w, IF chroma_db.exists THEN "clear_rmtree" ELSE "clear_reset")
  /\ loc' = [loc EXCEPT ![w] = NoLocals[w]]
  /\ UNCHANGED << conc_frame, last, vectorstore, collection, chroma_db, next_id >>

\* shutil.rmtree(persist_directory); it raises when the directory has been
\* removed in between, and the handler answers failure.
ClearRmtree(w) ==
  /\ pc[w] = "clear_rmtree"
  /\ IF chroma_db.exists
     THEN /\ chroma_db' = [exists |-> FALSE, chunks |-> {}]
          /\ Goto(w, "clear_reset")
     ELSE /\ UNCHANGED chroma_db
          /\ Goto(w, "clear_return")
  /\ UNCHANGED << conc_frame, last, vectorstore, collection, next_id, loc >>

\* self.vectorstore = None; return True
ClearReset(w) ==
  /\ pc[w] = "clear_reset"
  /\ vectorstore' = "None"
  /\ collection' = {}
  /\ loc' = [loc EXCEPT ![w].ok = TRUE]
  /\ Goto(w, "clear_return")
  /\ UNCHANGED << conc_frame, last, chroma_db, next_id >>

ClearReturn(w) ==
  /\ pc[w] = "clear_return"
  /\ Goto(w, "idle")
  /\ last' = [NoCall EXCEPT !.op = "clear_vectorstore", !.ok = loc[w].ok]
  /\ loc' = [loc EXCEPT ![w] = NoLocals[w]]
  /\ UNCHANGED << conc_frame, vectorstore, collection, chroma_db, next_id >>

\* A worker enters search_similar_documents: if not self.vectorstore: return []
StartSearch(w) ==
  /\ pc[w] = "idle"
  /\ Goto(w, IF vectorstore = "None" THEN "search_return" ELSE "search_query")
  /\ loc' = [loc EXCEPT ![w] = NoLocals[w]]
  /\ UNCHANGED << conc_frame, last, vectorstore, collection, chroma_db, next_id >>

\* self.vectorstore.similarity_search(query, k); on a handle reset in between
\* the call raises and the handler answers [].
SearchQuery(w) ==
  /\ pc[w] = "search_query"
  /\ loc' = [loc EXCEPT ![w].found =
               IF vectorstore = "None" THEN {}
               ELSE TopK(collection, DefaultTopK)]
  /\ Goto(w, "search_return")
  /\ UNCHANGED << conc_frame, last, vectorstore, collection, chroma_db, next_id >>

SearchReturn(w) ==
  /\ pc[w] = "search_return"
  /\ Goto(w, "idle")
  /\ last' = [NoCall EXCEPT !.op = "search_similar_documents",
                            !.found = loc[w].found]
  /\ loc' = [loc EXCEPT ![w] = NoLocals[w]]
  /\ UNCHANGED << conc_frame, vectorstore, collection, chroma_db, next_id >>

NextConc ==
  \E w \in Workers :
    \/ StartUpsert(w) \/ UpsertInit(w) \/ UpsertAdd(w) \/ UpsertPersist(w)
    \/ UpsertReturn(w)
    \/ StartClear(w) \/ ClearRmtree(w) \/ ClearReset(w) \/ ClearReturn(w)
    \/ StartSearch(w) \/ SearchQuery(w) \/ SearchReturn(w)

SpecConc == InitConc /\ [][NextConc]_vars

\* C10 (as claimed): clear is serialized against the other gateway
\* operations: when add_documents has returned success the persist directory
\* it wrote to exists and holds its chunks, and no search queries an index
\* handle whose persist directory is gone.
C10_ClearSerialized ==
  /\ (last.op = "add_documents" /\ last.ok) =>
        (chroma_db.exists /\ last.docs \subseteq chroma_db.chunks)
  /\ \A w \in Workers :
        pc[w] = "search_query" =>
           ~(vectorstore # "None" /\ ~chroma_db.exists)

Created == last.op = "create_document" /\ last.outcome # "redirect_login"
Added == last.op = "add_documents"
Searched == last.op = "search_similar_documents"
Cleared == last.op = "clear_vectorstore"

C5_AllOrNothing ==
  (Created /\ last.resp.kind # "non_object") =>
    /\ \/ ~last.gen_ret.truthy
       \/ /\ last.gen_ret.is_dict
          /\ DefaultKeys \subseteq DOMAIN last.gen_ret.data
    /\ last.template_data.is_dict
    /\ DefaultKeys \subseteq DOMAIN last.template_data.data

\* C6: add_documents on a gateway without an embedding function returns
\* failure, performs no step, and leaves the embedding handle, the index
\* handle, the in-memory index and the persist directory as they were.
C6_NoEmbeddingNoEffect ==
  (Added /\ ~embedding) =>
    /\ ~last.ok
    /\ last.steps = <<>>
    /\ Gateway = last.before

\* C6 witness: add_documents was called without an API key and failed.
C6_Witness ==
  /\ Added /\ ~api_key /\ ~embedding /\ ~last.ok /\ chroma_db.exists

\* C7: whenever add_documents returns success the chunks were added and then
\* persisted (they are in the in-memory index and in the persist directory);
\* when adding or persisting raises, it returns failure.
C7_SuccessMeansPersisted ==
  Added =>
    /\ last.ok => /\ last.steps = <<"add", "persist">>
                  /\ last.docs \subseteq collection
                  /\ last.docs \subseteq chroma_db.chunks
                  /\ chroma_db.exists
    /\ last.raised # {} => ~last.ok

\* C7 witness: an add_documents call that returned success.
C7_Witness ==
  /\ Added /\ last.ok /\ last.docs # {} /\ last.docs \subseteq chroma_db.chunks

C9_ClearWipesIndex ==
  /\ (Cleared /\ last.ok) =>
        /\ ~chroma_db.exists /\ chroma_db.chunks = {}
        /\ vectorstore = "None" /\ collection = {}
  /\ collection \cap cleared = {}
  /\ chroma_db.chunks \cap cleared = {}
  /\ Searched => last.found \cap cleared = {}
  /\ (Added /\ last.ok /\ last.prior = "cleared") =>
        /\ last.fresh
        /\ collection = last.docs
        /\ chroma_db.chunks = last.docs

\* C9 witness: a successful upsert into the index created after the clear of
\* an index that held chunks.
C9_Witness ==
  /\ Added /\ last.ok /\ last.prior = "cleared" /\ cleared # {}
  /\ collection = last.docs

\* ---------------------------------------------------------- claim C11
\* C11 (as claimed): constructing the gateway constructs neither the
\* embedding function nor the index handle: when the clear-learned-data
\* handler is the request that constructs the gateway, the object it gets
\* from the constructor, on which no upsert or search has been called, holds
\* no embedding function and no index handle.
C11_LazyConstruction ==
  (Cleared /\ last.constructed)
     => (~last.before.embedding /\ last.before.vectorstore = "None")

\* ------------------------------------------------- publisher: the batch
\* Texts are sequences of characters; "_" is a blank, "N" a line feed and "k"
\* stands for one Hangul syllable of the literal headers.
DefaultTitle == <<"k", "k", "k", "k", "k", "_", "k", "k", "_", "k", "k", "k">>

\* The (key, header) list of _format_template_to_doc, in its order.
sections ==
  << [key |-> "summary",
      header |-> <<"#", "#", "_", "1", ".", "_", "k", "k">>],
     [key |-> "functional_requirements",
      header |-> <<"#", "#", "#", "_", "2", ".", "1", "_", "k", "k", "_", "k", "k", "k", "k">>],
     [key |-> "non_functional_requirements",
      header |-> <<"#", "#", "#", "_", "2", ".", "2", "_", "k", "k", "k", "_", "k", "k", "k", "k">>],
     [key |-> "constraints_assumptions",
      header |-> <<"#", "#", "#", "_", "2", ".", "3", "_", "k", "k", "k", "k", "_", "k", "_", "k", "k">>],
     [key |-> "architecture_overview",
      header |-> <<"#", "#", "#", "_", "3", ".", "1", "_", "k", "k", "k", "k", "_", "k", "k">>],
     [key |-> "system_components",
      header |-> <<"#", "#", "#", "_", "3", ".", "2", "_", "k", "k", "k", "_", "k", "k", "k", "k">>],
     [key |-> "development_environment",
      header |-> <<"#", "#", "#", "_", "4", ".", "1", "_", "k", "k", "_", "k", "k">>],
     [key |-> "backend_technology",
      header |-> <<"#", "#", "#", "_", "4", ".", "2", "_", "k", "k", "k", "_", "k", "k">>],
     [key |-> "frontend_technology",
      header |-> <<"#", "#", "#", "_", "4", ".", "3", "_", "k", "k", "k", "k", "k", "_", "k", "k">>],
     [key |-> "infrastructure_deployment",
      header |-> <<"#", "#", "#", "_", "4", ".", "4", "_", "k", "k", "k", "_", "k", "_", "k", "k">>],
     [key |-> "entity_relationship_diagram",
      header |-> <<"#", "#", "#", "_", "5", ".", "1", "_", "k", "k", "k", "_", "k", "k", "_", "k", "k", "k", "k", "k">>],
     [key |-> "database_schema",
      header |-> <<"#", "#", "#", "_", "5", ".", "2", "_", "k", "k", "k", "k", "k", "k", "_", "k", "k", "k">>],
     [key |-> "data_flow",
      header |-> <<"#", "#", "#", "_", "5", ".", "3", "_", "k", "k", "k", "_", "k", "k">>],
     [key |-> "api_overview",
      header |-> <<"#", "#", "#", "_", "6", ".", "1", "_", "A", "P", "I", "_", "k", "k">>],
     [key |-> "endpoint_details",
      header |-> <<"#", "#", "#", "_", "6", ".", "2", "_", "k", "k", "k", "k", "k", "_", "k", "k">>],
     [key |-> "backend_components",
      header |-> <<"#", "#", "#", "_", "7", ".", "1", "_", "k", "k", "k", "_", "k", "k", "k", "k">>],
     [key |-> "frontend_components",
      header |-> <<"#", "#", "#", "_", "7", ".", "2", "_", "k", "k", "k", "k", "k", "_", "k", "k", "k", "k">>],
     [key |-> "core_algorithms_logic",
      header |-> <<"#", "#", "#", "_", "7", ".", "3", "_", "k", "k", "_", "k", "k", "k", "k", "_", "k", "_", "k", "k">>],
     [key |-> "security_threat_analysis",
      header |-> <<"#", "#", "#", "_", "8", ".", "1", "_", "k", "k", "_", "k", "k", "_", "k", "k">>],
     [key |-> "security_controls",
      header |-> <<"#", "#", "#", "_", "8", ".", "2", "_", "k", "k", "_", "k", "k">>],
     [key |-> "test_approach",
      header |-> <<"#", "#", "#", "_", "9", ".", "1", "_", "k", "k", "k", "_", "k", "k", "k">>],
     [key |-> "test_cases",
      header |-> <<"#", "#", "#", "_", "9", ".", "2", "_", "k", "k", "k", "_", "k", "k", "k">>],
     [key |-> "development_phases",
      header |-> <<"#", "#", "#", "_", "1", "0", ".", "1", "_", "k", "k", "_", "k", "k">>],
     [key |-> "development_standards",
      header |-> <<"#", "#", "#", "_", "1", "1", ".", "1", "_", "k", "k", "_", "k", "k">>],
     [key |-> "documentation_requirements",
      header |-> <<"#", "#", "#", "_", "1", "1", ".", "2", "_", "k", "k", "k", "_", "k", "k", "k", "k">>],
     [key |-> "glossary",
      header |-> <<"#", "#", "#", "_", "1", "2", ".", "1", "_", "k", "k", "_", "k", "k">>],
     [key |-> "reference_documents",
      header |-> <<"#", "#", "#", "_", "1", "2", ".", "2", "_", "k", "k", "_", "k", "k">>],
     [key |-> "requirements_implementation_verification",
      header |-> <<"#", "#", "#", "_", "1", "3", ".", "1", "_", "k", "k", "k", "k", "_", "k", "k", "_", "k", "k">>],
     [key |-> "implementation_status_conclusion",
      header |-> <<"#", "#", "#", "_", "1", "3", ".", "2", "_", "k", "k", "_", "k", "k", "_", "k", "k">>] >>

\* data.get(key, default)
Get(data, key, default) == IF key \in DOMAIN data THEN data[key] ELSE default

InsertText(key, index, text) ==
  [op |-> "insertText", key |-> key, index |-> index, text |-> text,
   startIndex |-> 0, endIndex |-> 0]

UpdateParagraphStyle(start, end) ==
  [op |-> "updateParagraphStyle", key |-> "title", index |-> 0, text |-> <<>>,
   startIndex |-> start, endIndex |-> end]

\* The loop over sections: the requests of sections i.. appended to requests,
\* current_index advanced by the length of each inserted text.
RECURSIVE FormatSections(_, _, _, _)
FormatSections(data, i, current_index, requests) ==
  IF i > Len(sections) THEN requests
  ELSE LET content == Get(data, sections[i].key, <<>>)
           section_text == sections[i].header \o <<Newline>> \o content
                             \o <<Newline, Newline>>
       IN FormatSections(data, i + 1, current_index + Len(section_text),
            Append(requests,
                   InsertText(sections[i].key, current_index, section_text)))

\* _format_template_to_doc with current_index not advanced past the title.
format_template_to_doc_TitleNotCounted(data) ==
  LET title == Get(data, "title", DefaultTitle)
      title_text == <<"#", "_">> \o title \o <<Newline, Newline>>
  IN Append(FormatSections(data, 1, 1, << InsertText("title", 1, title_text) >>),
            UpdateParagraphStyle(1, Len(<<"#", "_">> \o title) + 1))

\* DocumentCreator._format_template_to_doc(data): the title insert, one insert
\* per section, then the style request on the title.
format_template_to_doc(data) ==
  LET title == Get(data, "title", DefaultTitle)
      title_text == <<"#", "_">> \o title \o <<Newline, Newline>>
  IN Append(FormatSections(data, 1, 1 + Len(title_text),
                           << InsertText("title", 1, title_text) >>),
            UpdateParagraphStyle(1, Len(<<"#", "_">> \o title) + 1))

\* Mappings handed to the publisher: some keys present, values of a few
\* lengths (the empty text among them).
PubKeyPool == <<"summary", "title", "implementation_status_conclusion",
                "glossary", "extra_key">>
PubKeys == {PubKeyPool[i] : i \in 1..Min({MaxPubKeys, Len(PubKeyPool)})}
PubValues == SeqsUpTo({"a", Newline}, MaxValueLen)
PubMappings ==
  UNION {[K -> PubValues] : K \in SUBSET PubKeys}

\* One call of _format_template_to_doc: the initial state holds the mapping
\* of the pending call, the action performs the call.
InitPublisher ==
  /\ api_key = FALSE
  /\ langchain = TRUE
  /\ token = 0
  /\ token_state = "none"
  /\ logins_left = MaxLogins
  /\ service = 0
  /\ document_learner = FALSE
  /\ embedding = FALSE
  /\ vectorstore = "None"
  /\ collection = {}
  /\ chroma_db = [exists |-> TRUE, chunks |-> {}]
  /\ next_id = 1
  /\ cleared = {}
  /\ index_state = "virgin"
  /\ temp_files = {}
  /\ \E data \in PubMappings :
        last = [NoCall EXCEPT !.op = "pending_format",
                              !.template_data = Dict(data)]
  /\ pc = IdleWorkers
  /\ loc = NoLocals

FormatTemplateToDoc ==
  /\ last.op = "pending_format"
  /\ last' = [last EXCEPT
                !.op = "format_template_to_doc",
                !.batch = format_template_to_doc(last.template_data.data)]
  /\ UNCHANGED << env_vars, auth_vars, gateway_vars, temp_files, worker_vars >>

NextPublisher == FormatTemplateToDoc

SpecPublisher == InitPublisher /\ [][NextPublisher]_vars

Formatted == last.op = "format_template_to_doc"

\* Total length of the texts inserted by the first n requests of a batch.
RECURSIVE InsertedLen(_, _)
InsertedLen(batch, n) ==
  IF n = 0 THEN 0 ELSE InsertedLen(batch, n - 1) + Len(batch[n].text)

\* C12: the inserts of the batch are the title block followed by one insert
\* per section key in the registry's order, each insert carries the mapping's
\* value for its key (nothing when the key is missing), every insert is
\* anchored at 1 plus the length of all text inserted before it, and the batch
\* holds exactly one style request, whose range lies inside the title block.
C12_BatchOffsets ==
  Formatted =>
    LET batch == last.batch
        data == last.template_data.data
        inserts == SelectSeq(batch, LAMBDA r : r.op = "insertText")
        styles == SelectSeq(batch, LAMBDA r : r.op = "updateParagraphStyle")
    IN /\ Len(inserts) = Len(SectionKeys)
       /\ \A i \in 1..Len(inserts) : inserts[i].key = SectionKeys[i]
       /\ \A i \in 1..Len(inserts) :
            LET text == inserts[i].text
                value == Get(data, inserts[i].key,
                             IF i = 1 THEN DefaultTitle ELSE <<>>)
            IN /\ Len(text) >= Len(value) + 2
               /\ SubSeq(text, Len(text) - 1, Len(text))
                     = <<Newline, Newline>>
               /\ SubSeq(text, Len(text) - 1 - Len(value), Len(text) - 2)
                     = value
       /\ \A i \in 1..Len(batch) :
            batch[i].op = "insertText"
               => batch[i].index = 1 + InsertedLen(batch, i - 1)
       /\ Len(styles) = 1
       /\ styles[1].startIndex = 1
       /\ styles[1].startIndex < styles[1].endIndex
       /\ styles[1].endIndex <= 1 + Len(inserts[1].text)

\* C12 witness: a batch formatted from a mapping without a title, with an
\* empty summary and a two-character last section.
C12_Witness ==
  /\ Formatted
  /\ "title" \notin DOMAIN last.template_data.data
  /\ "summary" \in DOMAIN last.template_data.data
  /\ last.template_data.data["summary"] = <<>>
  /\ "implementation_status_conclusion" \in DOMAIN last.template_data.data
  /\ Len(last.template_data.data["implementation_status_conclusion"]) = 2
  /\ Len(last.batch) = Len(SectionKeys) + 1
  /\ last.batch[Len(SectionKeys)].index > 1

\* ------------------------------------------- sessions and the publisher
\* Logins, logouts, the expiry of the stored credential and create-document
\* requests.  The gateway is touched by the create-document handler only.
InitAuth ==
  /\ api_key \in BOOLEAN
  /\ langchain = TRUE
  /\ token = 0
  /\ token_state = "none"
  /\ logins_left = MaxSessions
  /\ service = 0
  /\ document_learner = FALSE
  /\ embedding = FALSE
  /\ vectorstore = "None"
  /\ collection = {}
  /\ chroma_db \in {[exists |-> TRUE, chunks |-> c] : c \in {{}, {0}}}
  /\ next_id = 1
  /\ cleared = {}
  /\ index_state = IF chroma_db.chunks = {} THEN "virgin" ELSE "upserted"
  /\ temp_files = {}
  /\ last = NoCall
  /\ pc = IdleWorkers
  /\ loc = NoLocals

\* Time passes: the stored credential stops being valid; "expired" when it
\* carries a refresh token, "invalid" when it has no refresh path.
Expire ==
  /\ token # 0
  /\ token_state = "valid"
  /\ token_state' \in {"expired", "invalid"}
  /\ last' = [NoCall EXCEPT !.op = "expire"]
  /\ UNCHANGED << env_vars, token, logins_left, service, gateway_vars,
                  temp_files, worker_vars >>

NextAuth ==
  \/ Callback
  \/ Logout
  \/ Expire
  \/ CreateDocumentUnauthenticated
  \/ CreateDocument

SpecAuth == InitAuth /\ [][NextAuth]_vars

Requested == last.op = "create_document"

\* C13: create_document_from_template returns a handle exactly when the
\* remote create call and the remote batch update were both made and both
\* succeeded; the handle's id is the id the create call returned and its url
\* contains that id.
C13_HandleIffBothSucceed ==
  Created =>
    /\ (last.handle # NoHandle) <=> (last.created /\ last.updated)
    /\ last.created => last.create_calls = 1
    /\ last.updated => last.update_calls = 1
    /\ (last.handle # NoHandle) =>
          /\ last.handle.id = last.doc_id
          /\ last.doc_id \in DocIds
          /\ \E i \in 1..Len(last.handle.url) :
                last.handle.url[i] = last.handle.id

\* C13 witness: one request whose batch update failed after the document was
\* created gave no handle.
C13_Witness ==
  /\ Created
  /\ last.created /\ last.update_calls = 1 /\ ~last.updated
  /\ last.handle = NoHandle

\* C14 (as claimed): a create-document request made while no valid credential
\* is available (no token file, or a stored credential that is invalid and
\* has no refresh path) creates no remote document and is answered with the
\* redirect to the login flow, not with the generic creation error.
C14_UnauthenticatedRedirects ==
  (Requested /\ last.cred_state \in {"none", "invalid"})
     => (last.outcome = "redirect_login" /\ last.create_calls = 0)

\* C15 (as claimed): every remote create call of a create-document request is
\* made with the credential the token file holds at the time of the request.
C15_BorrowsPerRequest ==
  (Created /\ last.create_calls > 0) => last.cred = token

\* C16 (as claimed): one create-document request issues at most one
\* completion request, at most one remote create call and at most one batch
\* update.
C16_AtMostOnce ==
  Requested => /\ last.llm_calls <= 1
               /\ last.create_calls <= 1
               /\ last.update_calls <= 1

\* ------------------------------------------------------------- ingestion
\* RecursiveCharacterTextSplitter(chunk_size=1000, chunk_overlap=200,
\* length_function=len), on a text given by its paragraph lengths.  A chunk
\* is the span [start, end) of the text it holds.
chunk_size == 1000
chunk_overlap == 200

\* len("\n\n"), the first separator of the splitter that the text holds.
SeparatorLen == 2

\* Length of a text, and where its j-th paragraph starts.
RECURSIVE TextLen(_)
TextLen(text) ==
  IF text = <<>> THEN 0
  ELSE IF Len(text) = 1 THEN text[1]
  ELSE text[1] + SeparatorLen + TextLen(Tail(text))

ParStart(text, j) == TextLen(SubSeq(text, 1, j - 1))
                       + (IF j > 1 THEN SeparatorLen ELSE 0)

Span(start, end) == [kind |-> "span", start |-> start, end |-> end]

\* A run of n characters without a separator is split character by
\* character and merged: a chunk is closed when it holds chunk_size
\* characters and another one follows, and the next chunk starts with its
\* last chunk_overlap characters.
CharChunks(start, n) ==
  IF n = 0 THEN <<>>
  ELSE LET step == chunk_size - chunk_overlap
           closed == IF n <= chunk_size THEN 0
                     ELSE ((n - chunk_size - 1) \div step) + 1
       IN [i \in 1..(closed + 1) |->
             Span(start + step * (i - 1),
                  IF i <= closed THEN start + step * (i - 1) + chunk_size
                  ELSE start + n)]

\* The chunk of the pieces held: from the first piece to the end of the last.
JoinDocs(current_doc) ==
  Span(current_doc[1].start,
       current_doc[Len(current_doc)].start + current_doc[Len(current_doc)].len)

\* _merge_splits, the loop dropping pieces from the front of current_doc.
RECURSIVE DropFront(_, _, _)
DropFront(current_doc, total, len) ==
  IF total > chunk_overlap
     \/ (total + len + (IF Len(current_doc) > 0 THEN SeparatorLen ELSE 0)
            > chunk_size /\ total > 0)
  THEN DropFront(Tail(current_doc),
                 total - (current_doc[1].len
                          + (IF Len(current_doc) > 1 THEN SeparatorLen ELSE 0)),
                 len)
  ELSE [current_doc |-> current_doc, total |-> total]

\* _merge_splits(splits, separator): pieces i.. of splits merged into chunks.
RECURSIVE MergeSplits(_, _, _, _, _)
MergeSplits(splits, i, current_doc, total, docs) ==
  IF i > Len(splits)
  THEN IF current_doc = <<>> THEN docs ELSE Append(docs, JoinDocs(current_doc))
  ELSE LET d == splits[i]
           full == total + d.len
                     + (IF Len(current_doc) > 0 THEN SeparatorLen ELSE 0)
                   > chunk_size
           emit == full /\ Len(current_doc) > 0
           kept == IF emit THEN DropFront(current_doc, total, d.len)
                   ELSE [current_doc |-> current_doc, total |-> total]
           next_doc == Append(kept.current_doc, d)
       IN MergeSplits(splits, i + 1, next_doc,
                      kept.total + d.len
                        + (IF Len(next_doc) > 1 THEN SeparatorLen ELSE 0),
                      IF emit THEN Append(docs, JoinDocs(current_doc))
                      ELSE docs)

\* split_text on a text of two or more paragraphs: paragraphs shorter than
\* chunk_size are merged, a longer one is split by itself.
RECURSIVE SplitParagraphs(_, _, _, _)
SplitParagraphs(text, j, good_splits, final_chunks) ==
  IF j > Len(text)
  THEN final_chunks \o MergeSplits(good_splits, 1, <<>>, 0, <<>>)
  ELSE IF text[j] < chunk_size
  THEN SplitParagraphs(text, j + 1,
                       Append(good_splits,
                              [start |-> ParStart(text, j), len |-> text[j]]),
                       final_chunks)
  ELSE SplitParagraphs(text, j + 1, <<>>,
                       final_chunks
                         \o MergeSplits(good_splits, 1, <<>>, 0, <<>>)
                         \o CharChunks(ParStart(text, j), text[j]))

\* text_splitter.split_documents([doc]): the chunks of the text.
split_text(text) ==
  IF Len(text) <= 1 THEN CharChunks(0, TextLen(text))
  ELSE SplitParagraphs(text, 1, <<>>, <<>>)

\* str(f.read()) of the file read as bytes: "b'...'" with every line feed
\* written as the two characters \n, one run without white space.
ReprText(text) ==
  << TextLen(text) + 3
       + (IF Len(text) > 1 THEN SeparatorLen * (Len(text) - 1) ELSE 0) >>

\* Chunks cut from str(bytes), and the document made up by the last resort.
AsRepr(chunks) == [i \in 1..Len(chunks) |-> [chunks[i] EXCEPT !.kind = "repr"]]
DummyDocument == [kind |-> "dummy", start |-> 0, end |-> 0]

\* File types the pipeline is specified for: text, PDF, Word, spreadsheet.
SupportedTypes == {".txt", ".pdf", ".docx", ".xlsx"}
FileTypes == SupportedTypes \cup {".xyz"}

\* Where the first attempt of process_document raises: nowhere, at reading
\* the file, at importing Document, at importing the splitter, at splitting.
PrimaryFailures ==
  {"none", "read", "import_document", "import_splitter", "split"}

\* DocumentLearner.process_document(file_path, metadata) on an existing file.
\* fail: where the first attempt raises; retry_ok: loading and splitting in
\* the second attempt do not raise; pdf_loader_ok: PyPDFLoader can be used.
\* The second attempt uses the name RecursiveCharacterTextSplitter, which is
\* bound only when the first attempt got past its import; the last resort
\* returns a made-up document or raises ValueError.
process_document(file, fail, retry_ok, pdf_loader_ok) ==
  LET readable == fail # "read"
      document_ok == fail # "import_document"
      splitter_bound == fail = "split"
      last_resort ==
        IF readable /\ document_ok
        THEN [raised |-> {}, chunks |-> << DummyDocument >>]
        ELSE [raised |-> {"ValueError"}, chunks |-> <<>>]
      from_bytes ==
        IF readable /\ document_ok /\ splitter_bound /\ retry_ok
        THEN [raised |-> {}, chunks |-> AsRepr(split_text(ReprText(file.text)))]
        ELSE last_resort
      from_loader ==
        IF document_ok /\ readable /\ splitter_bound /\ retry_ok
        THEN [raised |-> {}, chunks |-> split_text(file.text)]
        ELSE last_resort
  IN IF fail = "none"
     THEN [raised |-> {}, chunks |-> split_text(file.text)]
     ELSE IF file.ext = ".txt" THEN from_loader
     ELSE IF file.ext = ".pdf"
     THEN IF pdf_loader_ok THEN from_loader ELSE from_bytes
     ELSE from_bytes

\* Paragraph lengths around the sizes of the splitter.
ParagraphLens == {1, 600, 900, 1000, 1001, 2200}
Texts == SeqsUpTo(ParagraphLens, MaxParagraphs)

\* One call of process_document: the initial state holds the file and the
\* failures the pending call will meet, the action performs the call.
InitIngest ==
  /\ api_key = FALSE
  /\ langchain = TRUE
  /\ token = 0
  /\ token_state = "none"
  /\ logins_left = MaxLogins
  /\ service = 0
  /\ document_learner = FALSE
  /\ embedding = FALSE
  /\ vectorstore = "None"
  /\ collection = {}
  /\ chroma_db = [exists |-> TRUE, chunks |-> {}]
  /\ next_id = 1
  /\ cleared = {}
  /\ index_state = "virgin"
  /\ temp_files = {}
  /\ \E ext \in FileTypes, text \in Texts, fail \in PrimaryFailures :
       \E retry_ok \in IF fail = "split" THEN BOOLEAN ELSE {TRUE},
          pdf_loader_ok \in IF fail # "none" /\ ext = ".pdf" THEN BOOLEAN
                           ELSE {TRUE} :
          last = [NoCall EXCEPT !.op = "pending_process",
                                !.file = [ext |-> ext, text |-> text],
                                !.fail = fail, !.retry_ok = retry_ok,
                                !.pdf_loader_ok = pdf_loader_ok]
  /\ pc = IdleWorkers
  /\ loc = NoLocals

ProcessDocument ==
  /\ last.op = "pending_process"
  /\ LET r == process_document(last.file, last.fail, last.retry_ok,
                               last.pdf_loader_ok)
     IN last' = [last EXCEPT !.op = "process_document",
                             !.raised = r.raised, !.chunks = r.chunks]
  /\ UNCHANGED << env_vars, auth_vars, gateway_vars, temp_files,
                  worker_vars >>

NextIngest == ProcessDocument

SpecIngest == InitIngest /\ [][NextIngest]_vars

Processed == last.op = "process_document"

\* C17 (as claimed): process_document of a file whose type is none of the
\* supported ones fails with UnsupportedFormat and returns no chunk.
C17_UnsupportedFormat ==
  (Processed /\ last.file.ext \notin SupportedTypes)
     => (last.raised = {"UnsupportedFormat"} /\ last.chunks = <<>>)

\* C18 (as claimed): when reading, extracting or splitting raises,
\* process_document raises DocumentProcessingError and returns no chunks; when
\* the file holds no text it returns the empty sequence; and every chunk it
\* returns is a span of the text of the file.
C18_ProcessingError ==
  Processed =>
    /\ last.fail # "none"
         => (last.raised = {"DocumentProcessingError"} /\ last.chunks = <<>>)
    /\ (last.fail = "none" /\ last.file.text = <<>>)
         => (last.raised = {} /\ last.chunks = <<>>)
    /\ \A i \in 1..Len(last.chunks) :
          /\ last.chunks[i].kind = "span"
          /\ 0 <= last.chunks[i].start
          /\ last.chunks[i].start < last.chunks[i].end
          /\ last.chunks[i].end <= TextLen(last.file.text)

\* C19 (as claimed): the chunks of a text of length n are the windows
\* [800 i, min(800 i + 1000, n)): none is longer than 1000, consecutive
\* chunks overlap by 200, only the last may be shorter than 1000, and the
\* first 800 characters of the chunks, put one after the other, are the text.
C19_SlidingWindow ==
  (Processed /\ last.fail = "none") =>
    LET chunks == last.chunks
        n == TextLen(last.file.text)
        step == chunk_size - chunk_overlap
        Head800(c) == Min({c.start + step, c.end})
    IN /\ \A i \in 1..Len(chunks) :
            /\ chunks[i].start = step * (i - 1)
            /\ chunks[i].end = Min({step * (i - 1) + chunk_size, n})
            /\ chunks[i].end - chunks[i].start <= chunk_size
       /\ \A i \in 1..(Len(chunks) - 1) :
            /\ chunks[i].end - chunks[i + 1].start = chunk_overlap
            /\ chunks[i].end - chunks[i].start = chunk_size
            /\ Head800(chunks[i]) = chunks[i + 1].start
       /\ n > 0 => /\ Len(chunks) > 0
                   /\ chunks[1].start = 0
                   /\ Head800(chunks[Len(chunks)]) = n

\* ------------------------------------------------- ingestion handlers
\* Texts handed to the handlers: none, and one character.
UploadTexts == {<<>>, <<1>>}

\* What saving the temporary file runs into: nothing, an error before the
\* file exists, an error after it was created.
WriteOutcomes == {"ok", "open_error", "write_error"}

\* Where process_document can raise at first: without the langchain packages
\* the import of Document fails when the read did not.
IngestFailures ==
  IF langchain THEN PrimaryFailures ELSE {"read", "import_document"}

\* upload_document saves the upload as temp_<filename>.
UploadTempFile == "temp_upload"

\* tempfile.NamedTemporaryFile(delete=False) picks a name that is not in use.
TempNamePool == <<"tmp_1", "tmp_2", "tmp_3">>
TempNames == {TempNamePool[i] : i \in 1..Min({MaxTempFiles, Len(TempNamePool)})}
FreshTempNames == TempNames \ temp_files

\* The part both handlers share: the chunks go to add_documents as one new
\* entry of the index.
Learn(g0, documents, load_ok, add_ok, persist_ok) ==
  IF documents = <<>>
  THEN [g |-> g0, ok |-> FALSE, raised |-> {}, steps |-> <<>>,
        called |-> FALSE]
  ELSE [called |-> TRUE] @@ add_documents(g0, {next_id}, load_ok, add_ok,
                                          persist_ok)

\* The upload-document handler (POST /upload-document).
UploadDocument ==
  /\ next_id <= MaxChunks
  /\ \E ext \in FileTypes, text \in UploadTexts, write \in WriteOutcomes,
        load_ok \in LoadOutcomes :
     \E packages_ok \in IF write = "ok" /\ langchain THEN BOOLEAN
                        ELSE {FALSE} :
     \E fail \in IF packages_ok THEN IngestFailures ELSE {"none"} :
     \E retry_ok \in IF fail = "split" THEN BOOLEAN ELSE {TRUE},
        pdf_loader_ok \in IF fail # "none" /\ ext = ".pdf" THEN BOOLEAN
                         ELSE {TRUE} :
     \E p \in {process_document([ext |-> ext, text |-> text], fail, retry_ok,
                                pdf_loader_ok)} :
     \E add_ok \in IF packages_ok /\ p.chunks # <<>> THEN BOOLEAN ELSE {TRUE} :
     \E persist_ok \in IF packages_ok /\ p.chunks # <<>> /\ add_ok
                       THEN BOOLEAN ELSE {TRUE} :
       LET g0 == get_document_learner(Gateway, load_ok)
           processed == write = "ok" /\ packages_ok
           r == IF processed /\ p.raised = {}
                THEN Learn(g0, p.chunks, load_ok, add_ok, persist_ok)
                ELSE Learn(g0, <<>>, load_ok, add_ok, persist_ok)
       IN /\ SetGateway(r.g)
          /\ index_state' = IF r.called THEN IndexStateAfterAdd(r)
                            ELSE index_state
          /\ next_id' = IF r.called THEN next_id + 1 ELSE next_id
          /\ temp_files' =
               IF write = "write_error"
               THEN temp_files \cup {UploadTempFile}
               ELSE IF write = "ok" THEN temp_files \ {UploadTempFile}
               ELSE temp_files
          /\ last' = [NoCall EXCEPT
                        !.op = "upload_document",
                        !.file = [ext |-> ext, text |-> text],
                        !.write = write,
                        !.temp_created = write # "open_error",
                        !.temp_file = UploadTempFile,
                        !.fail = IF processed THEN fail ELSE "none",
                        !.raised = IF processed THEN p.raised ELSE {},
                        !.chunks = IF processed THEN p.chunks ELSE <<>>,
                        !.ok = r.ok,
                        !.outcome = IF r.ok THEN "success" ELSE "error"]
  /\ UNCHANGED << env_vars, auth_vars, cleared, worker_vars >>

\* The learn-text handler (POST /learn-text) and learn_from_text.
LearnText ==
  /\ next_id <= MaxChunks
  /\ FreshTempNames # {}
  /\ \E text \in UploadTexts, write \in WriteOutcomes,
        load_ok \in LoadOutcomes :
     \E fail \in IF write = "ok" THEN IngestFailures ELSE {"none"} :
     \E retry_ok \in IF fail = "split" THEN BOOLEAN ELSE {TRUE} :
     \E p \in {process_document([ext |-> ".txt", text |-> text], fail,
                                retry_ok, TRUE)} :
     \E add_ok \in IF write = "ok" /\ p.chunks # <<>> THEN BOOLEAN ELSE {TRUE} :
     \E persist_ok \in IF write = "ok" /\ p.chunks # <<>> /\ add_ok
                       THEN BOOLEAN ELSE {TRUE} :
       LET g0 == get_document_learner(Gateway, load_ok)
           tmp_path == CHOOSE name \in FreshTempNames : TRUE
           r == IF write = "ok" /\ p.raised = {}
                THEN Learn(g0, p.chunks, load_ok, add_ok, persist_ok)
                ELSE Learn(g0, <<>>, load_ok, add_ok, persist_ok)
           unlinked == write = "ok" /\ p.raised = {}
       IN /\ SetGateway(r.g)
          /\ index_state' = IF r.called THEN IndexStateAfterAdd(r)
                            ELSE index_state
          /\ next_id' = IF r.called THEN next_id + 1 ELSE next_id
          /\ temp_files' =
               IF write = "open_error" \/ unlinked THEN temp_files
               ELSE temp_files \cup {tmp_path}
          /\ last' = [NoCall EXCEPT
                        !.op = "learn_text",
                        !.file = [ext |-> ".txt", text |-> text],
                        !.write = write,
                        !.temp_created = write # "open_error",
                        !.temp_file = tmp_path,
                        !.fail = fail,
                        !.raised = IF write = "ok" THEN p.raised ELSE {},
                        !.chunks = IF write = "ok" THEN p.chunks ELSE <<>>,
                        !.ok = r.ok,
                        !.outcome = IF r.ok THEN "success" ELSE "error"]
  /\ UNCHANGED << env_vars, auth_vars, cleared, worker_vars >>

NextLearn ==
  \/ UploadDocument
  \/ LearnText

SpecLearn == Init /\ [][NextLearn]_vars

Ingested == last.op \in {"upload_document", "learn_text"}

\* C20 (as claimed): when an ingestion handler has created its temporary
\* file, that file does not exist any more once the handler has returned or
\* raised.
C20_TempFileRemoved ==
  (Ingested /\ last.temp_created) => last.temp_file \notin temp_files

====
